---- MODULE Spec2Model ----
(***************************************************************************)
(* Model of the crowdfunding aggregation core:                             *)
(*   app/connectors/geyser.py   fetch_geyser_projects (TTL cache)          *)
(*   app/angor_adapter.py       get_angor_projects (TTL cache + fallback   *)
(*                              chain), load_demo_projects                 *)
(*   app/aggregator.py          fetch_all_projects (gather, normalise,     *)
(*                              deduplicate)                               *)
(*   app/analytics.py           aggregate_projects, _sats, _parse_datetime *)
(*   app/connectors/geyser.py   normalize_geyser_project and the loop of   *)
(*                              fetch_via_graphql                          *)
(*   app/angor_nostr_client.py  parse_angor_event,                         *)
(*                              fetch_project_metadata_by_event_id         *)
(*   app/angor_adapter.py       fetch_from_angor_indexer (list request,    *)
(*                              per-item stats and metadata enrichment)    *)
(*   app/webhook.py, app/repo.py  verify_signature, handle_webhook,        *)
(*                              upsert_invoice, log_webhook_event          *)
(* The connectors are asyncio coroutines: code between two awaits runs     *)
(* without interleaving, so every action below is one such stretch.        *)
(* geyser.py and angor_adapter.py share no state (each has its own cache   *)
(* globals), so a behaviour of Spec runs the coroutines of one of the two  *)
(* modules, chosen initially, against the clock.                           *)
(***************************************************************************)
EXTENDS Integers, Sequences, FiniteSets, TLC

\* ------------------------------------------------------------------ bounds
MaxCalls == 2
MaxTicks == 3
\* longest list a connector hands to fetch_all_projects
MaxList == 2
\* seconds the clock may advance in one step: 10 s and 290 s reach the ages
\* 290 (inside the TTL), 300 (exactly the TTL) and beyond
TickSteps == {10, 290}
\* deliveries one behaviour sends to the webhook endpoint
MaxDeliveries == 2
\* longest project list the indexer answers with
MaxItems == 2
\* quanta of time an await without a timeout is followed for
MaxWait == 4

\* ------------------------------------------------------- program constants
Geyser_CACHE_TTL_SECONDS == 300
Angor_CACHE_TTL_SECONDS == 300
\* seconds: httpx.AsyncClient(timeout=15.0), httpx.AsyncClient(timeout=5.0),
\* client.get_events_of([event_filter], timeout=10)
LIST_TIMEOUT == 15
DETAIL_TIMEOUT == 5
EVENTS_TIMEOUT == 10

VARIABLES
    connector,        \* the connector module this behaviour exercises
    now,              \* datetime.now(), in seconds
    ticks,            \* number of clock steps taken
    geyser_cache,     \* geyser._geyser_cache
    geyser_ts,        \* geyser._cache_timestamp
    angor_cache,      \* angor_adapter._angor_cache
    angor_ts,         \* angor_adapter._cache_timestamp
    NOSTR_AVAILABLE,  \* angor_adapter.NOSTR_AVAILABLE, fixed at import
    calls,            \* the connector coroutines that are suspended at an await
    last,             \* the connector call that returned most recently
    gathered,         \* fetch_all_projects: what asyncio.gather returned
    agg,              \* fetch_all_projects: the combined list and the result
    ana,              \* aggregate_projects: its argument and what it returned
    gq,               \* fetch_via_graphql: the batch and what the loop gave
    fetched,          \* the unified records successive fetches gave for items
    vs,               \* verify_signature: its arguments and what it ended with
    hook,             \* handle_webhook: the secret, the tables, the last delivery
    ix                \* fetch_from_angor_indexer: the list response and the result

cacheVars == <<connector, now, ticks, geyser_cache, geyser_ts, angor_cache,
               angor_ts, NOSTR_AVAILABLE, calls, last>>
aggVars == <<gathered, agg>>
anaVars == <<ana>>
normVars == <<gq, fetched>>
sideVars == <<vs, hook, ix>>
vars == <<cacheVars, aggVars, anaVars, normVars, sideVars>>

\* ------------------------------------------------------------------ values
\* Optional[List]: None, or a list
None == [isNone |-> TRUE, items |-> <<>>]
Some(l) == [isNone |-> FALSE, items |-> l]
\* Python truthiness of an Optional[List]: None and [] are both falsy
Truthy(c) == ~c.isNone /\ c.items # <<>>
\* Optional[datetime]: None is NoTs
NoTs == -1

\* what awaiting a coroutine, or calling a function, ends with
ListOf(l) == [kind |-> "list", items |-> l]
Raise == [kind |-> "raise", items |-> <<>>]

\* a coroutine slot: the await it is suspended at, the fetches (strategies)
\* invoked so far and what each ended with, and whether a coroutine called
\* after it has stored its payload in the meantime.  The suspended
\* coroutines occupy the first slots in the order in which they were called.
CallIds == 1..MaxCalls
IdleCall == [pc |-> "idle", invoked |-> <<>>, rets |-> <<>>,
             overtaken |-> FALSE]

\* a returned call: when it returned, what it invoked and what the caller got
NoCall == [n |-> 0, tdone |-> 0, invoked |-> <<>>, rets |-> <<>>,
           overtaken |-> FALSE, result |-> ListOf(<<>>)]
Returned(rec, res) ==
    [n |-> 1, tdone |-> now, invoked |-> rec.invoked, rets |-> rec.rets,
     overtaken |-> rec.overtaken, result |-> res]

\* ------------------------------------------------- what the network answers
\* Geyser GraphQL endpoint: an HTTP failure (raise_for_status, timeout), a body
\* with "errors", or a body with a batch of projects
GraphqlResponses ==
    {[kind |-> "http_error", batch |-> <<>>],
     [kind |-> "errors", batch |-> <<>>],
     [kind |-> "data", batch |-> <<>>],
     [kind |-> "data", batch |-> <<"g1">>],
     [kind |-> "data", batch |-> <<"g2", "g1">>]}

\* Angor indexer: no endpoint answered, or the projects it listed
IndexerResponses ==
    {[kind |-> "unavailable", batch |-> <<>>],
     [kind |-> "data", batch |-> <<>>],
     [kind |-> "data", batch |-> <<"i1">>],
     [kind |-> "data", batch |-> <<"i2", "i1">>]}

\* Nostr relays: get_angor_projects_with_stats raises, or returns the events parsed
NostrOutcomes == {Raise, ListOf(<<>>), ListOf(<<"n1", "n2", "n3">>)}

\* data/angor_demo.json on disk
DemoFiles == {"missing", "bad_json", "unreadable", "top_level_list",
              "projects_null", "no_projects", "two_projects"}

\* ------------------------------------------------------------ shared shape
\* (mutant) the age test is written `age <= TTL`
CacheFreshInclusive(cache, ts, t, ttl) ==
    /\ Truthy(cache)
    /\ ts # NoTs
    /\ t - ts <= ttl

\* the guard of the cache check: `if cache and ts: age = now - ts; if age < TTL`
CacheFresh(cache, ts, t, ttl) ==
    /\ Truthy(cache)
    /\ ts # NoTs
    /\ t - ts < ttl

\* a new coroutine takes the lowest free slot, behind those called before it
MayStart(c) ==
    /\ calls[c].pc = "idle"
    /\ \A d \in CallIds : d < c => calls[d].pc # "idle"

\* a coroutine called now, suspended at its first await
Suspended(pc) ==
    [pc |-> pc, invoked |-> <<pc>>, rets |-> <<>>, overtaken |-> FALSE]

\* coroutine c returns, having stored its payload or not: one called before
\* it has been overtaken if c stored, those called after it move up a slot
Leave(c, stored) ==
    [d \in CallIds |->
        IF d < c THEN [calls[d] EXCEPT !.overtaken = @ \/ stored]
        ELSE IF d < MaxCalls THEN calls[d + 1]
        ELSE IdleCall]

\* ---------------------------------------------------------------- geyser.py
\* fetch_via_graphql: raise_for_status raises; "errors" in the body gives [];
\* otherwise the batch, one record per project
fetch_via_graphql(resp) ==
    CASE resp.kind = "http_error" -> Raise
      [] resp.kind = "errors" -> ListOf(<<>>)
      [] OTHER -> ListOf(resp.batch)

\* fetch_geyser_projects up to its await: the cache check, which returns the
\* cached list or goes on to `await fetch_via_graphql()`
GeyserCall(c) ==
    /\ connector = "geyser"
    /\ MayStart(c)
    /\ IF CacheFresh(geyser_cache, geyser_ts, now, Geyser_CACHE_TTL_SECONDS)
       THEN /\ last' = Returned(IdleCall, ListOf(geyser_cache.items))
            /\ UNCHANGED calls
       ELSE /\ calls' = [calls EXCEPT ![c] = Suspended("graphql")]
            /\ UNCHANGED last
    /\ UNCHANGED <<connector, now, ticks, geyser_cache, geyser_ts, angor_cache, angor_ts,
                   NOSTR_AVAILABLE, aggVars, anaVars, normVars, sideVars>>

\* (mutant) a list is stored only over an entry that is missing or expired:
\* the entry a concurrent call stored in the meantime is kept
GeyserWriteUnlessFresh(items) ==
    IF CacheFresh(geyser_cache, geyser_ts, now, Geyser_CACHE_TTL_SECONDS)
    THEN UNCHANGED <<geyser_cache, geyser_ts>>
    ELSE /\ geyser_cache' = Some(items)
         /\ geyser_ts' = now

\* (mutant) the coroutine is suspended between the two assignments: this
\* step stores the payload and leaves the timestamp of the previous write
GeyserWriteTorn(items) ==
    /\ geyser_cache' = Some(items)
    /\ UNCHANGED geyser_ts

\* `_geyser_cache = projects; _cache_timestamp = datetime.now()`: no await
\* lies between the two assignments
GeyserWrite(items) ==
    /\ geyser_cache' = Some(items)
    /\ geyser_ts' = now

\* what fetch_geyser_projects returns when the fetch raised: the cache if it
\* is non-empty, whatever its age, else []
GeyserOnError(cache) ==
    IF Truthy(cache) THEN ListOf(cache.items) ELSE ListOf(<<>>)

\* fetch_geyser_projects from the end of `await fetch_via_graphql()` on
GeyserReturn(c, resp) ==
    /\ calls[c].pc = "graphql"
    /\ LET out == fetch_via_graphql(resp)
           rec == [calls[c] EXCEPT !.rets = <<out>>]
       IN IF out.kind = "list"
          THEN /\ GeyserWrite(out.items)
               /\ last' = Returned(rec, out)
          ELSE /\ last' = Returned(rec, GeyserOnError(geyser_cache))
               /\ UNCHANGED <<geyser_cache, geyser_ts>>
    /\ calls' = Leave(c, fetch_via_graphql(resp).kind = "list")
    /\ UNCHANGED <<connector, now, ticks, angor_cache, angor_ts, NOSTR_AVAILABLE, aggVars, anaVars, normVars, sideVars>>

\* ---------------------------------------------------------- angor_adapter.py
\* fetch_from_angor_indexer as its caller sees it: every failure inside it is
\* caught and turned into [], otherwise one record per listed project
fetch_from_angor_indexer(resp) ==
    IF resp.kind = "unavailable" THEN ListOf(<<>>) ELSE ListOf(resp.batch)

\* load_demo_projects: FileNotFoundError, JSONDecodeError and KeyError are
\* caught and give []; any other exception of open / json.load / data.get /
\* the iteration over data["projects"] propagates
load_demo_projects(file) ==
    CASE file = "missing" -> ListOf(<<>>)
      [] file = "bad_json" -> ListOf(<<>>)
      [] file = "unreadable" -> Raise
      [] file = "top_level_list" -> Raise
      [] file = "projects_null" -> Raise
      [] file = "no_projects" -> ListOf(<<>>)
      [] OTHER -> ListOf(<<"d1", "d2">>)

\* (mutant) any list, empty or not, ends the chain
StrategySucceededAnyList(out) == out.kind = "list"

\* `if indexer_projects:` / `if projects:`: a strategy's list is taken when it
\* is non-empty
StrategySucceeded(out) == out.kind = "list" /\ out.items # <<>>

\* get_angor_projects up to its first await: the cache check, which returns
\* the cached list or goes on to `await fetch_from_angor_indexer()`
AngorCall(c) ==
    /\ connector = "angor"
    /\ MayStart(c)
    /\ IF CacheFresh(angor_cache, angor_ts, now, Angor_CACHE_TTL_SECONDS)
       THEN /\ last' = Returned(IdleCall, ListOf(angor_cache.items))
            /\ UNCHANGED calls
       ELSE /\ calls' = [calls EXCEPT ![c] = Suspended("indexer")]
            /\ UNCHANGED last
    /\ UNCHANGED <<connector, now, ticks, geyser_cache, geyser_ts, angor_cache, angor_ts,
                   NOSTR_AVAILABLE, aggVars, anaVars, normVars, sideVars>>

\* (mutant) `_cache_timestamp` is missing from the `global` statement: the
\* assignment binds a local and the module's timestamp stays as it was
AngorWriteLocalTimestamp(items) ==
    /\ angor_cache' = Some(items)
    /\ UNCHANGED angor_ts

\* `_angor_cache = projects; _cache_timestamp = datetime.now()`: no await lies
\* between the two assignments
AngorWrite(items) ==
    /\ angor_cache' = Some(items)
    /\ angor_ts' = now

\* a strategy's non-empty list is stored and returned
AngorStore(c, rec, out) ==
    /\ AngorWrite(out.items)
    /\ last' = Returned(rec, out)
    /\ calls' = Leave(c, TRUE)

\* (mutant) the static dataset is stored like the list of a strategy
AngorDemoStored(c, rec) ==
    \E file \in DemoFiles :
    LET demo == load_demo_projects(file)
        fin == [rec EXCEPT !.invoked = Append(rec.invoked, "demo"),
                           !.rets = Append(rec.rets, demo)]
    IN /\ last' = Returned(fin, IF demo.kind = "raise" THEN Raise
                                ELSE IF StrategySucceeded(demo) THEN demo
                                ELSE ListOf(<<>>))
       /\ calls' = Leave(c, StrategySucceeded(demo))
       /\ IF StrategySucceeded(demo)
          THEN AngorWrite(demo.items)
          ELSE UNCHANGED <<angor_cache, angor_ts>>

\* Strategy 3 and the end of get_angor_projects: load_demo_projects() is called
\* outside any try; its list is returned if non-empty, else []
AngorDemo(c, rec) ==
    \E file \in DemoFiles :
    LET demo == load_demo_projects(file)
        fin == [rec EXCEPT !.invoked = Append(rec.invoked, "demo"),
                           !.rets = Append(rec.rets, demo)]
    IN /\ last' = Returned(fin, IF demo.kind = "raise" THEN Raise
                                ELSE IF StrategySucceeded(demo) THEN demo
                                ELSE ListOf(<<>>))
       /\ calls' = Leave(c, FALSE)
       /\ UNCHANGED <<angor_cache, angor_ts>>

\* get_angor_projects from the return of `await fetch_from_angor_indexer()` to
\* the next await or the return
IndexerReturn(c, resp) ==
    /\ calls[c].pc = "indexer"
    /\ LET out == fetch_from_angor_indexer(resp)
           rec == [calls[c] EXCEPT !.rets = <<out>>]
       IN IF StrategySucceeded(out)
          THEN AngorStore(c, rec, out)
          ELSE IF NOSTR_AVAILABLE
          THEN /\ calls' = [calls EXCEPT ![c] =
                      [rec EXCEPT !.pc = "nostr",
                                  !.invoked = Append(rec.invoked, "nostr")]]
               /\ UNCHANGED <<angor_cache, angor_ts, last>>
          ELSE AngorDemo(c, rec)
    /\ UNCHANGED <<connector, now, ticks, geyser_cache, geyser_ts, NOSTR_AVAILABLE, aggVars, anaVars, normVars, sideVars>>

\* get_angor_projects from the end of `await get_angor_projects_with_stats()`
\* (a return, or an exception that is caught and logged) to the return
NostrReturn(c, out) ==
    /\ calls[c].pc = "nostr"
    /\ LET rec == [calls[c] EXCEPT !.rets = Append(calls[c].rets, out)]
       IN IF StrategySucceeded(out)
          THEN AngorStore(c, rec, out)
          ELSE AngorDemo(c, rec)
    /\ UNCHANGED <<connector, now, ticks, geyser_cache, geyser_ts, NOSTR_AVAILABLE, aggVars, anaVars, normVars, sideVars>>

\* ------------------------------------------------------------ aggregator.py
\* a JSON value as a connector passes it on: an int, a string, or null
JInt(n) == [t |-> "int", v |-> n]
JStr == [t |-> "str", v |-> 0]
JNull == [t |-> "null", v |-> 0]
\* a float: v counts units of 1/100000000, so 0.5 is JFloat(50000000)
JFloat(n) == [t |-> "float", v |-> n]
\* a string that spells the integer n, such as "12"
JNumStr(n) == [t |-> "numstr", v |-> n]
\* dict.get(key, default): a dict is a record, its keys are the fields
GetKey(dict, key, default) == IF key \in DOMAIN dict THEN dict[key] ELSE default

\* a url is a pair (site, path); the empty string, and a missing "url" key
\* (proj.get("url", "")), are <<>>
NoUrl == <<>>

\* unified records as fetch_geyser_projects may hand them over: two projects
\* with the same url, one with the url of an Angor project, one with no url
GeyserRecords ==
    {[id |-> <<"sha256", "p">>, platform |-> "geyser", name |-> "P",
      url |-> <<"geyser.fund", "p">>, status |-> "active",
      goal_sats |-> JInt(0), raised_sats |-> JInt(7), backer_count |-> JInt(2)],
     [id |-> <<"sha256", "p">>, platform |-> "geyser", name |-> "P again",
      url |-> <<"geyser.fund", "p">>, status |-> "completed",
      goal_sats |-> JInt(0), raised_sats |-> JInt(9), backer_count |-> JInt(3)],
     [id |-> <<"sha256", "a">>, platform |-> "geyser", name |-> "A on Geyser",
      url |-> <<"angor.io", "a">>, status |-> "active",
      goal_sats |-> JInt(0), raised_sats |-> JInt(1), backer_count |-> JInt(1)],
     [id |-> <<"sha256", "">>, platform |-> "geyser", name |-> "no url",
      url |-> NoUrl, status |-> "unknown",
      goal_sats |-> JInt(0), raised_sats |-> JInt(0), backer_count |-> JInt(0)]}

\* two Angor project identifiers that agree in their first 16 characters
LongIdA == "angor1qxyz0123456789a"
LongIdB == "angor1qxyz0123456789b"
\* `s[:16]`; the other identifiers of the model are shorter than 16
First16(s) == IF s \in {LongIdA, LongIdB} THEN "angor1qxyz012345" ELSE s

\* the /stats answer of the indexer for one project; the request may fail
NoStats == [kind |-> "unavailable"]
Stats(amountInvested, investorCount) ==
    [kind |-> "data", amountInvested |-> amountInvested,
     investorCount |-> investorCount]

\* the project dict fetch_from_angor_indexer builds from an item of the
\* project list and its stats (angor_adapter.py 134-166)
IndexerProject(item, stats) ==
    [id |-> "angor_" \o item.projectIdentifier,
     title |-> "Project " \o item.projectIdentifier,
     amount_target |-> JInt(0),
     amount_raised |-> IF stats.kind = "data" THEN stats.amountInvested
                       ELSE JInt(0),
     investor_count |-> IF stats.kind = "data" THEN stats.investorCount
                        ELSE JInt(0),
     founder_key |-> item.founderKey,
     project_identifier |-> item.projectIdentifier]

\* the project dict parse_angor_event builds from the ProjectInfo of a Nostr
\* event: the target is divided by 100_000_000 (`if target_sats else 0`),
\* nothing is raised yet, and there is no project_identifier key
parse_angor_event(info) ==
    [id |-> "angor_nostr_" \o First16(info.ProjectIdentifier),
     title |-> "Angor Project " \o info.ProjectIdentifier,
     amount_target |-> IF info.TargetAmount = 0 THEN JInt(0)
                       ELSE JFloat(info.TargetAmount),
     amount_raised |-> JInt(0),
     founder_key |-> info.FounderKey]

\* the project list of the indexer, and the ProjectInfo the relays hold
IndexerItem(projectIdentifier, founderKey) ==
    [projectIdentifier |-> projectIdentifier, founderKey |-> founderKey]
ProjectInfo(ProjectIdentifier, TargetAmount) ==
    [ProjectIdentifier |-> ProjectIdentifier, TargetAmount |-> TargetAmount,
     FounderKey |-> JStr]

\* raw records as get_angor_projects may hand them over: four built by the
\* indexer strategy (two well-formed, one whose amountInvested is null, one
\* whose founderKey is a number) and two built by the Nostr strategy (targets
\* of 150000000 and 0 satoshis)
AngorRawRecords ==
    {IndexerProject(IndexerItem("a", JStr), Stats(JInt(5), JInt(2))),
     IndexerProject(IndexerItem("b", JStr), NoStats),
     IndexerProject(IndexerItem("c", JStr), Stats(JNull, JInt(0))),
     IndexerProject(IndexerItem("d", JInt(1)), Stats(JInt(3), JInt(1))),
     parse_angor_event(ProjectInfo("a", 150000000)),
     parse_angor_event(ProjectInfo(LongIdA, 0))}

SeqsUpTo(S, n) == UNION {[1..k -> S] : k \in 0..n}

\* what awaiting a connector inside gather(..., return_exceptions=True) gives
GeyserResults == {Raise} \cup {ListOf(l) : l \in SeqsUpTo(GeyserRecords, MaxList)}
AngorResults == {Raise} \cup {ListOf(l) : l \in SeqsUpTo(AngorRawRecords, MaxList)}

\* building the unified dict of one Angor record raises TypeError when
\* `proj.get("amount_raised", 0) > 0` compares a non-number, or when
\* `proj.get("founder_key", "")[:16]` slices a truthy non-string
NormalizeRaises(proj) ==
    \/ GetKey(proj, "amount_raised", JInt(0)).t \notin {"int", "float"}
    \/ /\ GetKey(proj, "founder_key", JStr).t \in {"int", "float"}
       /\ GetKey(proj, "founder_key", JStr).v # 0

\* the unified dict built from one Angor record
NormalizeAngor(proj) ==
    [id |-> <<"angor", GetKey(proj, "project_identifier", GetKey(proj, "id", ""))>>,
     platform |-> "angor",
     name |-> GetKey(proj, "title", "Unknown Project"),
     url |-> <<"angor.io", GetKey(proj, "project_identifier", "")>>,
     status |-> IF GetKey(proj, "amount_raised", JInt(0)).v > 0
                THEN "active" ELSE "inactive",
     goal_sats |-> GetKey(proj, "amount_target", JInt(0)),
     raised_sats |-> GetKey(proj, "amount_raised", JInt(0)),
     backer_count |-> GetKey(proj, "investor_count", JInt(0))]

\* `results[k] if not isinstance(results[k], Exception) else []`
OrEmpty(res) == IF res.kind = "raise" THEN <<>> ELSE res.items

\* (mutant) a later record with the same url replaces the one seen first
DeduplicateLastWins(all_projects) ==
    LET Keep(i) == /\ all_projects[i].url # NoUrl
                   /\ \A j \in (i + 1)..Len(all_projects) :
                         all_projects[j].url # all_projects[i].url
        RECURSIVE From(_)
        From(i) == IF i > Len(all_projects) THEN <<>>
                   ELSE IF Keep(i) THEN <<all_projects[i]>> \o From(i + 1)
                   ELSE From(i + 1)
    IN From(1)

\* the deduplication loop: a record is appended when its url is non-empty and
\* not in seen_urls
Deduplicate(all_projects) ==
    LET RECURSIVE Loop(_, _, _)
        Loop(i, seen_urls, deduplicated) ==
            IF i > Len(all_projects) THEN deduplicated
            ELSE LET url == all_projects[i].url IN
                 IF url # NoUrl /\ url \notin seen_urls
                 THEN Loop(i + 1, seen_urls \cup {url},
                           Append(deduplicated, all_projects[i]))
                 ELSE Loop(i + 1, seen_urls, deduplicated)
    IN Loop(1, {}, <<>>)

\* the list geyser_projects + angor_projects, when every Angor record
\* normalizes
Combined(g, a) ==
    OrEmpty(g) \o [i \in 1..Len(OrEmpty(a)) |-> NormalizeAngor(OrEmpty(a)[i])]

\* the body of the try block: it raises when a record fails to normalize,
\* otherwise it returns the deduplicated list
TryBody(g, a) ==
    IF \E i \in 1..Len(OrEmpty(a)) : NormalizeRaises(OrEmpty(a)[i])
    THEN Raise
    ELSE ListOf(Deduplicate(Combined(g, a)))

\* (mutant) no `except Exception` around the body
FetchAllUnguarded(g, a) == TryBody(g, a)

\* fetch_all_projects given the two gather results: `except Exception` turns
\* anything the body raises into []
FetchAll(g, a) ==
    IF TryBody(g, a).kind = "raise" THEN ListOf(<<>>) ELSE TryBody(g, a)

NotCalled == [pc |-> "idle", reached |-> FALSE, all_projects |-> <<>>,
              result |-> ListOf(<<>>)]

\* one call of fetch_all_projects, from the gather to the return; the two
\* connectors end with a list or an exception each
fetch_all_projects(g, a) ==
    /\ agg.pc = "idle"
    /\ gathered' = <<g, a>>
    /\ agg' = [pc |-> "done",
               reached |-> TryBody(g, a).kind = "list",
               all_projects |-> IF TryBody(g, a).kind = "list"
                                THEN Combined(g, a) ELSE <<>>,
               result |-> FetchAll(g, a)]
    /\ UNCHANGED <<cacheVars, anaVars, normVars, sideVars>>

\* ------------------------------------------------------------- analytics.py
SATOSHIS_PER_BTC == 100000000
\* top_funded and most_investors keep the slice `[:5]`
TopN == 5

\* int(x) of a float x that counts units of 1/unit: truncation toward zero
Trunc(n, unit) == IF n >= 0 THEN n \div unit ELSE -((-n) \div unit)

\* _sats: None gives 0, an int itself, a float int(value), a string
\* int(float(value)) and 0 on ValueError, anything else 0
_sats(value) ==
    CASE value.t = "int" -> value.v
      [] value.t = "float" -> Trunc(value.v, SATOSHIS_PER_BTC)
      [] value.t = "numstr" -> value.v
      [] OTHER -> 0

\* `int(p.get("investor_count", 0) or 0)`: int() of a string that spells no
\* integer raises ValueError
InvestorCountRaises(value) == value.t = "str"
InvestorCount(value) ==
    CASE value.t = "int" -> value.v
      [] value.t = "float" -> Trunc(value.v, SATOSHIS_PER_BTC)
      [] value.t = "numstr" -> value.v
      [] OTHER -> 0

\* a created_at value: a datetime or an ISO-8601 string (wall-clock date
\* `day` counted in days, hour of the day, utc offset in hours), a string
\* that is no ISO timestamp, or None
Time(day, hour, off) == [t |-> "iso", day |-> day, hour |-> hour, off |-> off]
BadTime == [t |-> "bad", day |-> 0, hour |-> 0, off |-> 0]
NoTime == [t |-> "none", day |-> 0, hour |-> 0, off |-> 0]

\* _parse_datetime: the datetime, or None when the value is no datetime and
\* no ISO string
_parse_datetime(value) == IF value.t = "iso" THEN value ELSE NoTime

\* `created_at.date().isoformat()`: the calendar date the datetime shows in
\* its own offset; ISO date strings order as the dates do, so the key is the
\* day count
day_key(created_at) == created_at.day

\* a quotient of two ints, kept as a fraction; x / 0 raises
Ratio(num, den) == [ok |-> TRUE, num |-> num, den |-> den]
ZeroDivision == [ok |-> FALSE, num |-> 0, den |-> 0]
Quotient(num, den) == IF den = 0 THEN ZeroDivision ELSE Ratio(num, den)

\* (mutant) the amounts are added as floats and the sum is converted
TotalAccumulatedAsFloat(projects, key) ==
    LET AsFloat(value) ==
            CASE value.t = "int" -> value.v * SATOSHIS_PER_BTC
              [] value.t = "float" -> value.v
              [] value.t = "numstr" -> value.v * SATOSHIS_PER_BTC
              [] OTHER -> 0
        RECURSIVE Sum(_)
        Sum(i) == IF i = 0 THEN 0
                  ELSE Sum(i - 1) + AsFloat(GetKey(projects[i], key, JInt(0)))
    IN Trunc(Sum(Len(projects)), SATOSHIS_PER_BTC)

\* `sum(_sats(p.get(key, 0)) for p in projects)`
Total(projects, key) ==
    LET RECURSIVE Sum(_)
        Sum(i) == IF i = 0 THEN 0
                  ELSE Sum(i - 1) + _sats(GetKey(projects[i], key, JInt(0)))
    IN Sum(Len(projects))

\* `sum(int(p.get("investor_count", 0) or 0) for p in projects)`
TotalInvestors(projects) ==
    LET RECURSIVE Sum(_)
        Sum(i) == IF i = 0 THEN 0
                  ELSE Sum(i - 1) + InvestorCount(GetKey(projects[i], "investor_count", JInt(0)))
    IN Sum(Len(projects))

\* (mutant) the completion rate without its `if total_target > 0`
completion_rate_unguarded(total_raised, total_target) ==
    Quotient(total_raised * 100, total_target)

\* `(total_raised / total_target * 100) if total_target > 0 else 0`, before
\* round(.., 2)
completion_rate(total_raised, total_target) ==
    IF total_target > 0 THEN Quotient(total_raised * 100, total_target)
    ELSE Ratio(0, 1)

\* `round(raised / target * 100, 2) if target > 0 else 0`, before the round
progress_percent(amount_raised_sat, amount_target_sat) ==
    IF amount_target_sat > 0
    THEN Quotient(amount_raised_sat * 100, amount_target_sat)
    ELSE Ratio(0, 1)

\* `total / count if count > 0 else 0`
Average(total, count) == IF count > 0 THEN Quotient(total, count) ELSE Ratio(0, 1)

\* the list of a finite set of ints in ascending order: `sorted(...)` over
\* the items of the accumulator, whose keys are distinct
RECURSIVE Ascending(_)
Ascending(S) ==
    IF S = {} THEN <<>>
    ELSE LET m == CHOOSE x \in S : \A y \in S : x <= y
         IN <<m>> \o Ascending(S \ {m})

\* daily_totals: projects whose created_at does not parse are skipped, the
\* others add their raised amount under their day key; one entry per key,
\* sorted by key
daily_totals(projects) ==
    LET Parsed == {i \in 1..Len(projects) :
                      _parse_datetime(GetKey(projects[i], "created_at", NoTime)).t = "iso"}
        KeyOf(i) == day_key(_parse_datetime(GetKey(projects[i], "created_at", NoTime)))
        RECURSIVE Acc(_, _)
        Acc(i, day) ==
            IF i = 0 THEN 0
            ELSE Acc(i - 1, day)
                 + (IF i \in Parsed /\ KeyOf(i) = day
                    THEN _sats(GetKey(projects[i], "amount_raised", JInt(0)))
                    ELSE 0)
        days == Ascending({KeyOf(i) : i \in Parsed})
    IN [k \in 1..Len(days) |->
           [date |-> days[k], amount_raised |-> Acc(Len(projects), days[k])]]

\* one entry of project_list
ProjectEntry(p) ==
    [id |-> p.id,
     amount_target |-> _sats(GetKey(p, "amount_target", JInt(0))),
     amount_raised |-> _sats(GetKey(p, "amount_raised", JInt(0))),
     amount_spent |-> _sats(GetKey(p, "amount_spent", JInt(0))),
     investor_count |-> InvestorCount(GetKey(p, "investor_count", JInt(0))),
     progress_percent |->
         progress_percent(_sats(GetKey(p, "amount_raised", JInt(0))),
                          _sats(GetKey(p, "amount_target", JInt(0)))),
     created_at |-> GetKey(p, "created_at", NoTime)]

\* (mutant) sorted ascending and then reversed: equal keys come out in
\* reverse input order
SortedDescendingByReversal(list, key) ==
    LET Insert(sorted, x) ==
            LET n == Cardinality({i \in 1..Len(sorted) : sorted[i][key] > x[key]})
            IN SubSeq(sorted, 1, n) \o <<x>> \o SubSeq(sorted, n + 1, Len(sorted))
        RECURSIVE Sort(_)
        Sort(i) == IF i = 0 THEN <<>> ELSE Insert(Sort(i - 1), list[i])
    IN Sort(Len(list))

\* `sorted(list, key=lambda x: x[key], reverse=True)`: the sort is stable,
\* an entry goes behind the entries already placed whose key is not smaller
SortedDescending(list, key) ==
    LET Insert(sorted, x) ==
            LET n == Cardinality({i \in 1..Len(sorted) : sorted[i][key] >= x[key]})
            IN SubSeq(sorted, 1, n) \o <<x>> \o SubSeq(sorted, n + 1, Len(sorted))
        RECURSIVE Sort(_)
        Sort(i) == IF i = 0 THEN <<>> ELSE Insert(Sort(i - 1), list[i])
    IN Sort(Len(list))

\* `list[:n]`
Take(list, n) == SubSeq(list, 1, IF Len(list) < n THEN Len(list) ELSE n)

\* what a call of aggregate_projects ends with
Raised(exc) == [kind |-> "raise", exc |-> exc]

\* the snapshot returned for `not projects`: the amounts and the derived
\* *_btc figures of a snapshot are not kept apart, the latter are left out
EmptySnapshot ==
    [kind |-> "dict",
     total_target |-> 0, total_raised |-> 0, total_spent |-> 0,
     total_raised_btc |-> Ratio(0, 1), total_spent_btc |-> Ratio(0, 1),
     count |-> 0, total_investors |-> 0,
     average_raised |-> Ratio(0, 1), average_target |-> Ratio(0, 1),
     average_raised_btc |-> Ratio(0, 1),
     funding_completion_rate |-> Ratio(0, 1),
     projects |-> <<>>, top_funded |-> <<>>, most_investors |-> <<>>,
     daily_totals |-> <<>>]

\* _sat_to_btc(value) = value / SATOSHIS_PER_BTC, of a quotient
_sat_to_btc(value) == [value EXCEPT !.den = value.den * SATOSHIS_PER_BTC]

\* aggregate_projects past the `if not projects` return (lines 64-146)
Aggregate(projects) ==
    LET total_target == Total(projects, "amount_target")
        total_raised == Total(projects, "amount_raised")
        total_spent == Total(projects, "amount_spent")
        count == Len(projects)
        rate == completion_rate(total_raised, total_target)
        project_list == [i \in 1..Len(projects) |-> ProjectEntry(projects[i])]
    IN IF \E i \in 1..Len(projects) :
             InvestorCountRaises(GetKey(projects[i], "investor_count", JInt(0)))
       THEN Raised("ValueError")
       ELSE IF ~rate.ok \/ ~Average(total_raised, count).ok
                        \/ ~Average(total_target, count).ok
       THEN Raised("ZeroDivisionError")
       ELSE [kind |-> "dict",
             total_target |-> total_target,
             total_target_btc |-> _sat_to_btc(Ratio(total_target, 1)),
             total_raised |-> total_raised,
             total_raised_btc |-> _sat_to_btc(Ratio(total_raised, 1)),
             total_spent |-> total_spent,
             total_spent_btc |-> _sat_to_btc(Ratio(total_spent, 1)),
             count |-> count,
             total_investors |-> TotalInvestors(projects),
             average_raised |-> Average(total_raised, count),
             average_raised_btc |-> _sat_to_btc(Average(total_raised, count)),
             average_target |-> Average(total_target, count),
             average_target_btc |-> _sat_to_btc(Average(total_target, count)),
             funding_completion_rate |-> rate,
             projects |-> project_list,
             top_funded |-> Take(SortedDescending(project_list, "amount_raised"), TopN),
             most_investors |-> Take(SortedDescending(project_list, "investor_count"), TopN),
             daily_totals |-> daily_totals(projects)]

\* (mutant) no return for the empty list and no `if count > 0`: the averages
\* divide by len(projects)
aggregate_projects_unguarded(projects) ==
    IF projects = <<>> THEN Raised("ZeroDivisionError") ELSE Aggregate(projects)

aggregate_projects(projects) ==
    IF projects = <<>> THEN EmptySnapshot ELSE Aggregate(projects)

\* longest list of mixed records given to aggregate_projects
MaxProjects == 3
\* longest list of plain records, longer than the slice of the top lists
MaxTop == 6

\* project dicts whose values have the types _sats and _parse_datetime tell
\* apart: ints, floats (1.5, 0.5, 2.5), numeric and other strings, None, a
\* key that is not there; timestamps at utc offsets -5, 0 and +2
MixedProjects ==
    {[id |-> "p1", amount_target |-> JInt(10), amount_raised |-> JInt(5),
      amount_spent |-> JInt(1), investor_count |-> JInt(2),
      created_at |-> Time(1, 12, 0)],
     [id |-> "p2", amount_target |-> JInt(0), amount_raised |-> JInt(7),
      investor_count |-> JNull, created_at |-> Time(1, 23, -5)],
     [id |-> "p3", amount_target |-> JFloat(150000000),
      amount_raised |-> JFloat(50000000), amount_spent |-> JInt(0),
      investor_count |-> JFloat(250000000), created_at |-> Time(2, 1, 2)],
     [id |-> "p4", amount_target |-> JNumStr(4), amount_raised |-> JNumStr(3),
      amount_spent |-> JStr, investor_count |-> JNumStr(1),
      created_at |-> BadTime],
     [id |-> "p5", amount_raised |-> JNull, amount_spent |-> JNull,
      created_at |-> NoTime],
     [id |-> "p6", amount_target |-> JInt(3), amount_raised |-> JInt(2),
      amount_spent |-> JInt(0), investor_count |-> JStr,
      created_at |-> Time(2, 12, 0)]}

\* plain records with ties: x and y raised the same, x and z have the same
\* number of investors
PlainProjects ==
    {[id |-> "x", amount_target |-> JInt(10), amount_raised |-> JInt(5),
      amount_spent |-> JInt(0), investor_count |-> JInt(1),
      created_at |-> Time(1, 12, 0)],
     [id |-> "y", amount_target |-> JInt(10), amount_raised |-> JInt(5),
      amount_spent |-> JInt(0), investor_count |-> JInt(2),
      created_at |-> Time(1, 12, 0)],
     [id |-> "z", amount_target |-> JInt(10), amount_raised |-> JInt(9),
      amount_spent |-> JInt(0), investor_count |-> JInt(1),
      created_at |-> Time(2, 12, 0)]}

AnalyticsInputs ==
    SeqsUpTo(MixedProjects, MaxProjects) \cup SeqsUpTo(PlainProjects, MaxTop)

NotAnalysed == [pc |-> "idle", projects |-> <<>>, snapshot |-> EmptySnapshot]

\* one call of aggregate_projects
CallAggregateProjects(projects) ==
    /\ ana.pc = "idle"
    /\ ana' = [pc |-> "done", projects |-> projects,
               snapshot |-> aggregate_projects(projects)]
    /\ UNCHANGED <<cacheVars, aggVars, normVars, sideVars>>

\* ------------------------------------- geyser.py: normalize_geyser_project
\* longest batch of raw projects in a GraphQL response
MaxBatch == 3
\* most fetches whose records for the same item are compared
MaxFetches == 2

\* a JSON string, or null, where the text matters
Text(s) == [t |-> "str", s |-> s]
NullText == [t |-> "null", s |-> ""]

\* str.lower() on the status strings of the model
Lower(s) ==
    CASE s \in {"active", "Active", "ACTIVE"} -> "active"
      [] s \in {"inactive", "INACTIVE"} -> "inactive"
      [] s \in {"deleted", "Deleted"} -> "deleted"
      [] s \in {"archived", "ARCHIVED"} -> "archived"
      [] OTHER -> s

\* raw projects of a GraphQL response: the same project name with other
\* fields changed, statuses in several casings, one without a status key,
\* one whose status is null and one whose owner has a null user
GeyserRawProjects ==
    {[name |-> "p", title |-> "P", status |-> Text("active"),
      balance |-> JInt(7), fundersCount |-> JInt(2), owner_user |-> Text("u")],
     [name |-> "p", title |-> "P renamed", status |-> Text("ACTIVE"),
      balance |-> JInt(9), fundersCount |-> JInt(3), owner_user |-> Text("u")],
     [name |-> "q", title |-> "Q", status |-> Text("inactive"),
      balance |-> JInt(1), fundersCount |-> JInt(1), owner_user |-> Text("u")],
     [name |-> "q", title |-> "Q", status |-> Text("Deleted"),
      balance |-> JInt(1), fundersCount |-> JInt(1), owner_user |-> Text("v")],
     [name |-> "r", title |-> "R", status |-> Text("ARCHIVED"),
      balance |-> JInt(0), fundersCount |-> JInt(0), owner_user |-> Text("u")],
     [name |-> "r", title |-> "R", balance |-> JInt(4),
      fundersCount |-> JInt(1), owner_user |-> Text("u")],
     [name |-> "s", title |-> "S", status |-> NullText,
      balance |-> JInt(2), fundersCount |-> JInt(1), owner_user |-> Text("u")],
     [name |-> "t", title |-> "T", status |-> Text("active"),
      balance |-> JInt(2), fundersCount |-> JInt(1), owner_user |-> NullText]}

\* normalize_geyser_project raises AttributeError on
\* `raw_project.get("status", "active").lower()` when the status is null, and
\* on `owners[0].get("user", {}).get("username", "")` when the user is null
NormalizeGeyserRaises(raw_project) ==
    \/ GetKey(raw_project, "status", Text("active")).t = "null"
    \/ GetKey(raw_project, "owner_user", Text("")).t = "null"

\* `status_map.get(key, "unknown")`
status_map(key) ==
    CASE key = "active" -> "active"
      [] key = "inactive" -> "completed"
      [] key = "deleted" -> "failed"
      [] OTHER -> "unknown"

\* `hashlib.sha256(project_url.encode()).hexdigest()[:16]`: the digest
\* prefix of a url, distinct urls taken to have distinct prefixes
Sha256Prefix(project_url) == <<"sha256", project_url[2]>>

\* normalize_geyser_project on a raw project it does not raise on
normalize_geyser_project(raw_project) ==
    LET project_name == GetKey(raw_project, "name", "")
        project_url == <<"geyser.fund", project_name>>
    IN [id |-> Sha256Prefix(project_url),
        platform |-> "geyser",
        name |-> GetKey(raw_project, "title", "Untitled Project"),
        url |-> project_url,
        status |-> status_map(Lower(GetKey(raw_project, "status",
                                           Text("active")).s)),
        goal_sats |-> JInt(0),
        raised_sats |-> GetKey(raw_project, "balance", JInt(0)),
        backer_count |-> GetKey(raw_project, "fundersCount", JInt(0))]

\* the loop of fetch_via_graphql over the batch (lines 95-98): an item
\* normalize_geyser_project raises on ends the loop with that exception
NormalizeBatch(batch) ==
    IF \E i \in 1..Len(batch) : NormalizeGeyserRaises(batch[i])
    THEN Raise
    ELSE ListOf([i \in 1..Len(batch) |-> normalize_geyser_project(batch[i])])

NotFetched == [pc |-> "idle", batch |-> <<>>, loop |-> ListOf(<<>>),
               returned |-> <<>>]

\* fetch_geyser_projects with nothing cached, the response carrying `batch`:
\* what fetch_via_graphql ends with and what the connector returns
FetchBatch(batch) ==
    /\ gq.pc = "idle"
    /\ gq' = [pc |-> "done", batch |-> batch, loop |-> NormalizeBatch(batch),
              returned |-> IF NormalizeBatch(batch).kind = "raise"
                           THEN GeyserOnError(None).items
                           ELSE NormalizeBatch(batch).items]
    /\ UNCHANGED <<cacheVars, aggVars, anaVars, fetched, sideVars>>

\* one source item as one fetch meets it: a Geyser project in a GraphQL
\* response, or an Angor project as the indexer or the relays describe it
SourceItems ==
    {[platform |-> "geyser", key |-> r.name,
      unified |-> normalize_geyser_project(r)] :
        r \in {x \in GeyserRawProjects : ~NormalizeGeyserRaises(x)}}
    \cup
    {[platform |-> "angor", key |-> pid,
      unified |-> NormalizeAngor(IndexerProject(IndexerItem(pid, JStr), st))] :
        pid \in {"a", LongIdA, LongIdB},
        st \in {NoStats, Stats(JInt(5), JInt(2))}}
    \cup
    {[platform |-> "angor", key |-> pid,
      unified |-> NormalizeAngor(parse_angor_event(ProjectInfo(pid, 150000000)))] :
        pid \in {"a", LongIdA, LongIdB}}

\* one more fetch returns the record of a source item
FetchItem(item) ==
    /\ Len(fetched) < MaxFetches
    /\ fetched' = Append(fetched, item)
    /\ UNCHANGED <<cacheVars, aggVars, anaVars, gq, sideVars>>

\* ---------------------------------------------------------------- webhook.py
\* Optional[str]: None, or a string
NoStr == [isNone |-> TRUE, s |-> ""]
Str(s) == [isNone |-> FALSE, s |-> s]
\* `not x` for an Optional[str]: None and "" are both falsy
Falsy(x) == x.isNone \/ x.s = ""

\* the value of the BTCPay-Sig header.  A signature is described by what it
\* spells: nothing, the hex digits of HMAC-SHA256(key, body) in lower or
\* upper case, those digits behind the prefix "sha256=", sixty-four zeros,
\* or a string with a character outside ASCII (header bytes are decoded as
\* latin-1, so "\xe9" arrives as such a string)
EmptySig == [kind |-> "empty"]
HexSig(key, body, case) ==
    [kind |-> "hex", key |-> key, body |-> body, case |-> case]
PrefixedSig(key, body) == [kind |-> "prefixed", key |-> key, body |-> body]
ZeroSig == [kind |-> "zeros"]
NonAsciiSig == [kind |-> "nonascii"]

\* what a function call ends with
Ret(v) == [kind |-> "return", value |-> v]
Exc(e) == [kind |-> "raise", exc |-> e]

\* hmac.new(secret.encode('utf-8'), body, hashlib.sha256).hexdigest(): the
\* digest of (key, body) in lower-case hex digits; two different (key, body)
\* pairs have different digests
hexdigest(key, body) == HexSig(key, body.id, "lower")

\* str.lower() on a signature: hex digits a-f lose their case, every other
\* character of the strings above is unchanged
str_lower(sig) ==
    IF sig.kind = "hex" THEN [sig EXCEPT !.case = "lower"] ELSE sig

\* hmac.compare_digest(a, b) on two str: TypeError unless both are ASCII
compare_digest(a, b) ==
    IF a.kind = "nonascii" \/ b.kind = "nonascii"
    THEN Exc("TypeError")
    ELSE Ret(a = b)

\* verify_signature(body, signature, secret)
verify_signature(body, signature, secret) ==
    IF signature = EmptySig \/ Falsy(secret)
    THEN Ret(FALSE)
    ELSE compare_digest(str_lower(signature),
                        str_lower(hexdigest(secret.s, body)))

\* request bodies: JSON objects (their keys are the fields beside id and
\* text), a text that is not JSON, and bytes that are not UTF-8
WebhookBodies ==
    {[id |-> "b1", text |-> "json", type |-> "InvoiceSettled", invoiceId |-> "i1"],
     [id |-> "b2", text |-> "json", type |-> "InvoiceExpired", invoiceId |-> "i1",
      currency |-> "EUR"],
     [id |-> "b3", text |-> "json", type |-> "InvoiceInvalid", invoiceId |-> "i2"],
     [id |-> "b4", text |-> "json", type |-> "InvoiceCreated", invoiceId |-> "i2"],
     [id |-> "b5", text |-> "json", type |-> "InvoiceSettled"],
     [id |-> "b6", text |-> "json"],
     [id |-> "b7", text |-> "not_json"],
     [id |-> "b8", text |-> "not_utf8"]}

\* the signatures a delivery of this body may carry: none, sixty-four zeros,
\* a non-ASCII string, the prefixed digest, the digest of another body under
\* the secret "s", and the digest of this body under three keys
Signatures(body) ==
    {EmptySig, ZeroSig, NonAsciiSig, PrefixedSig("s", body.id),
     HexSig("s", "b1", "lower")}
    \cup {HexSig(k, body.id, c) : k \in {"s", "S", "x"},
                                  c \in {"lower", "upper"}}
\* config.BTCPAY_WEBHOOK_SECRET = os.getenv(...): unset, empty, or set
ConfiguredSecrets == {NoStr, Str(""), Str("s")}
VerifySecrets == ConfiguredSecrets \cup {Str("S")}

\* one call of verify_signature
NotVerified == [pc |-> "idle"]
CallVerifySignature(body, signature, secret) ==
    /\ vs.pc = "idle"
    /\ vs' = [pc |-> "done", body |-> body, signature |-> signature,
              secret |-> secret,
              out |-> verify_signature(body, signature, secret)]
    /\ UNCHANGED <<cacheVars, aggVars, anaVars, normVars, hook, ix>>

\* json.loads(body): UnicodeDecodeError for bytes that are not UTF-8 (it is
\* not a JSONDecodeError), JSONDecodeError for a text that is not JSON, else
\* the object
json_loads(body) ==
    CASE body.text = "not_utf8" -> Exc("UnicodeDecodeError")
      [] body.text = "not_json" -> Exc("JSONDecodeError")
      [] OTHER -> Ret(body)

\* body.decode('utf-8')
decode(body) ==
    IF body.text = "not_utf8" THEN Exc("UnicodeDecodeError") ELSE Ret(body.id)

\* map_invoice_status
map_invoice_status(event_type) ==
    CASE event_type = "InvoiceSettled" -> "Settled"
      [] event_type = "InvoiceExpired" -> "Expired"
      [] event_type = "InvoiceInvalid" -> "Invalid"
      [] OTHER -> "Unknown"

\* the result of extract_invoice_from_webhook when there is no invoiceId: {}
NoInvoiceData == [id |-> ""]

\* extract_invoice_from_webhook: the columns that depend on the payload
extract_invoice_from_webhook(payload) ==
    IF GetKey(payload, "invoiceId", "") = ""
    THEN NoInvoiceData
    ELSE [id |-> payload.invoiceId,
          status |-> map_invoice_status(GetKey(payload, "type", "")),
          currency |-> GetKey(payload, "currency", "USD")]

\* upsert_invoice: the row with this primary key takes the values of
\* invoice_data, or a new row is added; the table is the set of its rows
upsert_invoice(invoices, invoice_data) ==
    {row \in invoices : row.id # invoice_data.id} \cup {invoice_data}

\* log_webhook_event: one more EventLog row
log_webhook_event(log, verified, event_type) ==
    Append(log, [verified |-> verified, event_type |-> event_type])

\* what one delivery does: the response status, the EventLog and the Invoice
\* table after it
Handled(status, log, invoices) ==
    [status |-> status, log |-> log, invoices |-> invoices]

\* handle_webhook, from `if not config.BTCPAY_WEBHOOK_SECRET` on.  FastAPI
\* answers an HTTPException with its status code and any other exception
\* with 500.
handle_webhook(secret, log, invoices, body, signature) ==
    LET is_valid == verify_signature(body, signature, secret)
        loaded == json_loads(body)
        payload == IF loaded.kind = "return" THEN loaded.value ELSE [id |-> body.id]
        event_type == IF loaded.kind = "return"
                      THEN GetKey(payload, "type", "unknown") ELSE "unknown"
        invoice_data == extract_invoice_from_webhook(payload)
    IN  IF Falsy(secret)
        THEN IF decode(body).kind = "raise"
             THEN Handled(500, log, invoices)
             ELSE Handled(400, log_webhook_event(log, FALSE, "unknown"), invoices)
        ELSE IF is_valid.kind = "raise"
        THEN Handled(500, log, invoices)
        ELSE IF loaded.kind = "raise" /\ loaded.exc # "JSONDecodeError"
        THEN Handled(500, log, invoices)
        ELSE IF ~is_valid.value
        THEN Handled(401, log_webhook_event(log, FALSE, event_type), invoices)
        ELSE IF event_type \in {"InvoiceSettled", "InvoiceExpired", "InvoiceInvalid"}
                /\ invoice_data # NoInvoiceData
        THEN Handled(200, log_webhook_event(log, TRUE, event_type),
                     upsert_invoice(invoices, invoice_data))
        ELSE Handled(200, log_webhook_event(log, TRUE, event_type), invoices)

\* the application before its configuration is read
HookBoot == [pc |-> "boot", secret |-> NoStr, n |-> 0, log |-> <<>>,
             invoices |-> {}, last |-> [status |-> 0]]

\* app.config is imported: the secret is what the environment holds
LoadConfig(secret) ==
    /\ hook.pc = "boot"
    /\ hook' = [hook EXCEPT !.pc = "serving", !.secret = secret]
    /\ UNCHANGED <<cacheVars, aggVars, anaVars, normVars, vs, ix>>

\* one delivery to POST /webhooks/btcpay
Deliver(body, signature) ==
    /\ hook.pc = "serving"
    /\ hook.n < MaxDeliveries
    /\ LET h == handle_webhook(hook.secret, hook.log, hook.invoices, body, signature)
       IN hook' = [hook EXCEPT !.n = hook.n + 1,
                               !.log = h.log,
                               !.invoices = h.invoices,
                               !.last = [status |-> h.status, body |-> body,
                                         signature |-> signature]]
    /\ UNCHANGED <<cacheVars, aggVars, anaVars, normVars, vs, ix>>

\* ------------------------------------ angor_adapter.fetch_from_angor_indexer
\* time spent in an await is counted in units of the shortest timeout,
\* DETAIL_TIMEOUT
\* the timeout of the await a coroutine is suspended at: the list request
\* (httpx.AsyncClient(timeout=15.0)), the stats request of one project
\* (httpx.AsyncClient(timeout=5.0)), client.get_events_of(..., timeout=10);
\* `await client.add_relay(relay)` and `await client.connect()` are given none
NoTimeout == 0
TimeoutOf(pc) ==
    CASE pc = "list" -> LIST_TIMEOUT
      [] pc = "stats" -> DETAIL_TIMEOUT
      [] pc = "relay_events" -> EVENTS_TIMEOUT
      [] OTHER -> NoTimeout

\* items of the list response: objects (with or without a nostrEventId, one
\* whose projectIdentifier is a number) and a null
NullItem == [json |-> "null"]
ObjectItem(projectIdentifier, nostrEventId) ==
    [json |-> "object", projectIdentifier |-> projectIdentifier,
     nostrEventId |-> nostrEventId]
ListedItems ==
    {ObjectItem(Text("a"), "e1"), ObjectItem(Text("b"), ""),
     ObjectItem(JInt(7), "e7"), NullItem}
\* what the list request of one endpoint ends with
ListResponses ==
    {[kind |-> "timeout", items |-> <<>>], [kind |-> "status", items |-> <<>>]}
    \cup {[kind |-> "data", items |-> l] : l \in SeqsUpTo(ListedItems, MaxItems)}
\* what the stats request of one project ends with
StatsResponses ==
    {[kind |-> "timeout"], [kind |-> "status"], [kind |-> "error"],
     Stats(JInt(5), JInt(2))}
\* what fetch_project_metadata_by_event_id's awaits end with
SetupOutcomes == {"connected", "raise"}
EventsOutcomes == {"name", "no_events", "raise"}

\* `item.get(...)`: AttributeError unless the item is an object
ItemGetRaises(item) == item.json # "object"
\* lines 134-153, the base record: item.get raises for a non-object, and
\* `proj_id[:12]` raises for an identifier that is not a string
BaseRaises(item) ==
    \/ ItemGetRaises(item)
    \/ item.projectIdentifier.t # "str"
\* the project dict after the stats request, before the title is enriched
ProjectOf(item, stats) ==
    IndexerProject(IndexerItem(item.projectIdentifier.s, JStr), stats)

\* the coroutine before it is called
NotListed == [pc |-> "idle", endpoint |-> 0, waited |-> 0, items |-> <<>>,
              i |-> 0, project |-> NoStats, stats |-> NoStats,
              projects |-> <<>>,
              trace |-> <<>>, result |-> ListOf(<<>>)]

\* the `for idx, item in enumerate(projects_data, 1)` loop from item i on, up
\* to its next await or its end: an item whose base record raises is logged
\* and skipped, but the handler's own item.get raises for a non-object, which
\* the outermost except turns into `return []`
RECURSIVE LoopFrom(_, _)
LoopFrom(rec, i) ==
    IF i > Len(rec.items)
    THEN [rec EXCEPT !.pc = "done", !.i = i, !.waited = 0,
                     !.result = ListOf(rec.projects)]
    ELSE IF ItemGetRaises(rec.items[i])
    THEN [rec EXCEPT !.pc = "done", !.i = i, !.waited = 0,
                     !.result = ListOf(<<>>)]
    ELSE IF BaseRaises(rec.items[i])
    THEN LoopFrom(rec, i + 1)
    ELSE [rec EXCEPT !.pc = "stats", !.i = i, !.waited = 0,
                     !.project = ProjectOf(rec.items[i], NoStats)]

\* `projects.append(project)` and on to the next item
AppendAndGoOn(rec, project, meta) ==
    LoopFrom([rec EXCEPT !.projects = Append(rec.projects, project),
                         !.trace = Append(rec.trace,
                                     [i |-> rec.i, stats |-> rec.stats, meta |-> meta])],
             rec.i + 1)

ixFrame == <<cacheVars, aggVars, anaVars, normVars, vs, hook>>

\* fetch_from_angor_indexer is called: the list request to mainnet is sent
IndexerStart ==
    /\ ix.pc = "idle"
    /\ ix' = [ix EXCEPT !.pc = "list", !.endpoint = 1]
    /\ UNCHANGED ixFrame

\* an await stays pending for another quantum; one that has a timeout is
\* not pending beyond it
AwaitPending ==
    /\ ix.pc \in {"list", "stats", "relay_setup", "relay_events"}
    /\ ix.waited < MaxWait
    /\ TimeoutOf(ix.pc) # NoTimeout =>
           (ix.waited + 1) * DETAIL_TIMEOUT <= TimeoutOf(ix.pc)
    /\ ix' = [ix EXCEPT !.waited = ix.waited + 1]
    /\ UNCHANGED ixFrame

\* the list request of one endpoint ends: a failure moves on to testnet, or
\* to `return []` after testnet; so does an empty list (`if not
\* projects_data`); otherwise the per-item loop begins
ListEnds(resp) ==
    /\ ix.pc = "list"
    /\ ix' = IF resp.kind # "data"
             THEN IF ix.endpoint = 1
                  THEN [ix EXCEPT !.endpoint = 2, !.waited = 0]
                  ELSE [ix EXCEPT !.pc = "done", !.waited = 0]
             ELSE IF resp.items = <<>>
             THEN [ix EXCEPT !.pc = "done", !.waited = 0]
             ELSE LoopFrom([ix EXCEPT !.items = resp.items], 1)
    /\ UNCHANGED ixFrame

\* the stats request of item i ends; then the metadata lookup begins (`if
\* NOSTR_AVAILABLE and nostr_event_id`) or the project is appended
StatsEnds(stats) ==
    /\ ix.pc = "stats"
    /\ LET item == ix.items[ix.i]
           project == ProjectOf(item, stats)
       IN ix' = IF NOSTR_AVAILABLE /\ item.nostrEventId # ""
                THEN [ix EXCEPT !.pc = "relay_setup", !.waited = 0,
                                !.project = project, !.stats = stats]
                ELSE AppendAndGoOn([ix EXCEPT !.stats = stats], project, "none")
    /\ UNCHANGED ixFrame

\* fetch_project_metadata_by_event_id: add_relay and connect end; an
\* exception is caught there and gives None
SetupEnds(outcome) ==
    /\ ix.pc = "relay_setup"
    /\ ix' = IF outcome = "raise"
             THEN AppendAndGoOn(ix, ix.project, "raise")
             ELSE [ix EXCEPT !.pc = "relay_events", !.waited = 0]
    /\ UNCHANGED ixFrame

\* fetch_project_metadata_by_event_id: get_events_of ends; the title is
\* replaced when an event with a name came back
EventsEnds(outcome) ==
    /\ ix.pc = "relay_events"
    /\ ix' = AppendAndGoOn(ix,
                 IF outcome = "name"
                 THEN [ix.project EXCEPT
                          !.title = ix.items[ix.i].projectIdentifier.s \o "..."]
                 ELSE ix.project,
                 outcome)
    /\ UNCHANGED ixFrame

\* ------------------------------------------------------------ the clock
Tick(d) ==
    /\ ticks < MaxTicks
    /\ now' = now + d
    /\ ticks' = ticks + 1
    /\ UNCHANGED <<connector, geyser_cache, geyser_ts, angor_cache, angor_ts,
                   NOSTR_AVAILABLE, calls, last, aggVars, anaVars, normVars, sideVars>>

\* ======================================================== the cache claims
\* the cache of the connector this behaviour exercises
TheCache == IF connector = "geyser" THEN geyser_cache ELSE angor_cache
TheTs == IF connector = "geyser" THEN geyser_ts ELSE angor_ts
TheTtl == IF connector = "geyser" THEN Geyser_CACHE_TTL_SECONDS
          ELSE Angor_CACHE_TTL_SECONDS

\* an outcome is a list with at least one item
NonEmptyList(o) == o.kind = "list" /\ Len(o.items) > 0
\* an entry with a payload was stored and is younger than the TTL
EntryValid == /\ ~TheCache.isNone
              /\ Len(TheCache.items) > 0
              /\ TheTs >= 0
              /\ now - TheTs < TheTtl
\* this step is a call that goes on to the underlying fetch (first strategy)
MissStep == \E c \in CallIds : calls[c].pc = "idle" /\ calls'[c].pc # "idle"
\* this step is a call that returns at once, without any fetch
HitStep == calls' = calls /\ last' # last
\* this step is the return of a call that was suspended in a fetch
ReturnStep == \E c \in CallIds : calls[c].pc # "idle" /\ calls'[c].pc = "idle"
NoneInFlight == \A c \in CallIds : calls[c].pc = "idle"

\* the strategies get_angor_projects can invoke, in priority order
AvailableChain == IF NOSTR_AVAILABLE THEN <<"indexer", "nostr", "demo">>
                  ELSE <<"indexer", "demo">>

\* C3: on a cache miss get_angor_projects invokes indexer, relay, static
\* dataset in that order; every strategy before the last one invoked ended
\* empty or raising; the chain stops before the static dataset only at a
\* non-empty list, and then the result is exactly that list.
C3_FallbackOrder ==
    (connector = "angor") =>
        /\ \A c \in CallIds :
              calls[c].invoked = SubSeq(AvailableChain, 1, Len(calls[c].invoked))
        /\ (last.n = 1 /\ last.invoked # <<>>) =>
              LET k == Len(last.invoked) IN
              /\ last.invoked = SubSeq(AvailableChain, 1, k)
              /\ Len(last.rets) = k
              /\ \A j \in 1..(k - 1) : ~NonEmptyList(last.rets[j])
              /\ NonEmptyList(last.rets[k]) => last.result = last.rets[k]
              /\ ~NonEmptyList(last.rets[k]) => last.invoked[k] = "demo"

\* C3 witness: the indexer gave nothing, the relay gave 3 items, they are the
\* result and the static dataset was not read
C3_Witness ==
    /\ connector = "angor"
    /\ last.n = 1
    /\ last.invoked = <<"indexer", "nostr">>
    /\ last.rets[1] = ListOf(<<>>)
    /\ last.result = ListOf(<<"n1", "n2", "n3">>)

\* C4 (as claimed): get_angor_projects never propagates an exception, and
\* returns [] when all strategies are exhausted without a non-empty list.
C4_NeverRaises ==
    (connector = "angor" /\ last.n = 1) =>
        /\ last.result.kind = "list"
        /\ (last.invoked # <<>> /\ \A j \in 1..Len(last.rets) :
                                      ~NonEmptyList(last.rets[j]))
              => last.result = ListOf(<<>>)

\* C5: a call made while a non-empty entry younger than the TTL is cached
\* returns the cached payload without invoking a fetch; a call made without
\* such an entry invokes the fetch.
C5_CacheHitOrFetch ==
    [][ /\ EntryValid => ~MissStep
        /\ (EntryValid /\ HitStep) =>
              (last'.invoked = <<>> /\ last'.result = ListOf(TheCache.items))
        /\ ~EntryValid => ~HitStep ]_vars

\* C5 witness: a call was answered from an entry of age 290 s
C5_Witness ==
    /\ last.n = 1
    /\ last.invoked = <<>>
    /\ Len(last.result.items) > 0
    /\ last.tdone - TheTs = 290

\* the call that returned last invoked the fetch and nothing is in flight:
\* the next call is the second of two sequential calls
AfterFirstCall(maxGap) ==
    /\ last.n = 1
    /\ last.invoked # <<>>
    /\ NoneInFlight
    /\ now - last.tdone < maxGap

\* the call that returned last stored what it fetched from the network
LastStoredItsFetch ==
    /\ NonEmptyList(last.rets[Len(last.rets)])
    /\ last.invoked[Len(last.invoked)] # "demo"

\* C6 (as claimed): a second call less than 300 s after a first call that
\* fetched invokes no further fetch, whatever the first fetch returned.
C6_OneFetchWhatever ==
    [][ AfterFirstCall(TheTtl) => ~MissStep ]_vars

\* C6 (amended): a second call less than 300 s after a first call whose fetch
\* returned a non-empty list (Geyser: the GraphQL batch; Angor: the indexer or
\* the relay strategy) invokes no further fetch: one fetch in total.
C6_OneFetchAfterSuccess ==
    [][ (AfterFirstCall(TheTtl) /\ LastStoredItsFetch) =>
            (~MissStep /\ (HitStep => last'.result = last.result)) ]_vars

\* C6 witness: the first fetch stored at time 0, a second call 10 s later was
\* answered from the cache
C6_Witness ==
    /\ last.n = 1
    /\ last.invoked = <<>>
    /\ last.tdone = 10
    /\ TheTs = 0
    /\ NoneInFlight

\* the fetch of the call returning in this step failed: it raised or was
\* empty (Angor: every strategy invoked raised or was empty)
FetchFailed(rec) == \A j \in 1..Len(rec.rets) : ~NonEmptyList(rec.rets[j])

\* C7 (as claimed): when a refetch fails and a previously cached entry
\* exists, the call returns that entry, whatever its age; with no previous
\* entry it returns [] when the fetch gave nothing.
C7_StaleWhileError ==
    [][ (ReturnStep /\ FetchFailed(last')) =>
            IF ~TheCache.isNone /\ Len(TheCache.items) > 0
            THEN last'.result = ListOf(TheCache.items)
            ELSE last'.result.kind = "list" => last'.result = ListOf(<<>>) ]_vars

\* C8: payload and timestamp change only together, in one step, to the list
\* the returning call fetched and the time of that step.
C8_AtomicWrite ==
    [][ (TheCache' # TheCache \/ TheTs' # TheTs) =>
            /\ ReturnStep
            /\ TheTs' = now
            /\ TheCache' = Some(last'.result.items)
            /\ last'.result = last'.rets[Len(last'.rets)] ]_vars

\* C8 witness: with a second coroutine still suspended in its fetch, the first
\* one has overwritten an earlier entry
C8_Witness ==
    /\ calls[1].pc # "idle"
    /\ last.invoked # <<>>
    /\ last.tdone = 300
    /\ now = 300
    /\ TheTs = 300
    /\ Len(TheCache.items) = 2

Init ==
    /\ connector \in {"geyser", "angor"}
    /\ now = 0
    /\ ticks = 0
    /\ geyser_cache = None
    /\ geyser_ts = NoTs
    /\ angor_cache = None
    /\ angor_ts = NoTs
    /\ NOSTR_AVAILABLE \in BOOLEAN
    /\ calls = [c \in CallIds |-> IdleCall]
    /\ last = NoCall
    /\ gathered = <<ListOf(<<>>), ListOf(<<>>)>>
    /\ agg = NotCalled
    /\ ana = NotAnalysed
    /\ gq = NotFetched
    /\ fetched = <<>>
    /\ vs = NotVerified
    /\ hook = HookBoot
    /\ ix = NotListed

Next ==
    \/ \E c \in CallIds : GeyserCall(c)
    \/ \E c \in CallIds, resp \in GraphqlResponses : GeyserReturn(c, resp)
    \/ \E c \in CallIds : AngorCall(c)
    \/ \E c \in CallIds, resp \in IndexerResponses : IndexerReturn(c, resp)
    \/ \E c \in CallIds, out \in NostrOutcomes : NostrReturn(c, out)
    \/ \E d \in TickSteps : Tick(d)

Spec == Init /\ [][Next]_vars

\* fetch_all_projects on its own, its connectors' outcomes being inputs
InitAgg ==
    /\ Init
    /\ connector = "geyser"
    /\ NOSTR_AVAILABLE

NextAgg ==
    /\ agg.pc = "idle"
    /\ \E g \in GeyserResults, a \in AngorResults : fetch_all_projects(g, a)

SpecAgg == InitAgg /\ [][NextAgg]_vars

\* aggregate_projects on its own, its argument being the input
NextAnalytics ==
    /\ ana.pc = "idle"
    /\ \E projects \in AnalyticsInputs : CallAggregateProjects(projects)

SpecAnalytics == InitAgg /\ [][NextAnalytics]_vars

\* fetch_all_projects, and then aggregate_projects on the list it returned
AnalyseAggregated ==
    /\ agg.pc = "done"
    /\ CallAggregateProjects(agg.result.items)

NextFlow ==
    \/ NextAgg
    \/ AnalyseAggregated

SpecFlow == InitAgg /\ [][NextFlow]_vars

\* the Geyser connector on its own, the GraphQL batch being the input
NextGeyserBatch ==
    /\ gq.pc = "idle"
    /\ \E batch \in SeqsUpTo(GeyserRawProjects, MaxBatch) : FetchBatch(batch)

SpecGeyserBatch == InitAgg /\ [][NextGeyserBatch]_vars

\* successive fetches, each returning the record of one source item
NextFetches ==
    /\ Len(fetched) < MaxFetches
    /\ \E item \in SourceItems : FetchItem(item)

SpecFetches == InitAgg /\ [][NextFetches]_vars

\* verify_signature on its own, its three arguments being the input
NextVerify ==
    /\ vs.pc = "idle"
    /\ \E body \in WebhookBodies, secret \in VerifySecrets :
          \E signature \in Signatures(body) :
              CallVerifySignature(body, signature, secret)

SpecVerify == InitAgg /\ [][NextVerify]_vars

\* the webhook endpoint: the configuration is read, then deliveries arrive
NextWebhook ==
    \/ /\ hook.pc = "boot"
       /\ \E secret \in ConfiguredSecrets : LoadConfig(secret)
    \/ /\ hook.pc = "serving"
       /\ hook.n < MaxDeliveries
       /\ \E body \in WebhookBodies : \E signature \in Signatures(body) :
              Deliver(body, signature)

SpecWebhook == InitAgg /\ [][NextWebhook]_vars

\* one call of fetch_from_angor_indexer, with or without the Nostr SDK
InitIndexer ==
    /\ Init
    /\ connector = "angor"

NextIndexer ==
    \/ IndexerStart
    \/ AwaitPending
    \/ /\ ix.pc = "list"
       /\ \E resp \in ListResponses : ListEnds(resp)
    \/ /\ ix.pc = "stats"
       /\ \E stats \in StatsResponses : StatsEnds(stats)
    \/ /\ ix.pc = "relay_setup"
       /\ \E outcome \in SetupOutcomes : SetupEnds(outcome)
    \/ /\ ix.pc = "relay_events"
       /\ \E outcome \in EventsOutcomes : EventsEnds(outcome)

SpecIndexer == InitIndexer /\ [][NextIndexer]_vars

\* =================================================== the aggregator claims
AggDone == agg.pc = "done"
Out == agg.result.items
All == agg.all_projects
\* the records of a list that have a url
UrlsOf(l) == {l[i].url : i \in 1..Len(l)} \ {NoUrl}
\* the first position of url u in list l
FirstIdx(l, u) == CHOOSE i \in 1..Len(l) :
                     l[i].url = u /\ \A j \in 1..(i - 1) : l[j].url # u

\* C1: fetch_all_projects never raises: whatever the two connectors end with
\* (any list of records, or an exception), it returns a list.
C1_AlwaysAList == AggDone => agg.result.kind = "list"

\* C1 witness: one connector raised, the other returned a record that cannot
\* be normalized, and the call returned the empty list
C1_Witness ==
    /\ AggDone
    /\ gathered[1].kind = "raise"
    /\ gathered[2].kind = "list"
    /\ \E i \in 1..Len(gathered[2].items) : NormalizeRaises(gathered[2].items[i])
    /\ agg.result = ListOf(<<>>)

C9_FirstSeenWins ==
    (AggDone /\ agg.reached) =>
        /\ UrlsOf(Out) = UrlsOf(All)
        /\ \A u \in UrlsOf(All) :
              /\ Cardinality({k \in 1..Len(Out) : Out[k].url = u}) = 1
              /\ Out[FirstIdx(Out, u)] = All[FirstIdx(All, u)]
        /\ \A k1, k2 \in 1..Len(Out) :
              (k1 < k2 /\ Out[k1].url # NoUrl /\ Out[k2].url # NoUrl) =>
                 FirstIdx(All, Out[k1].url) < FirstIdx(All, Out[k2].url)

\* C9 witness: list A holds url X, list B holds X and Y; the result has 2
\* entries and the one for X is A's
C9_Witness ==
    /\ AggDone /\ agg.reached
    /\ Len(gathered[1].items) = 1
    /\ Len(gathered[2].items) = 2
    /\ All[1].url = All[2].url
    /\ All[3].url # All[1].url
    /\ Len(Out) = 2
    /\ Out[1] = gathered[1].items[1]
    /\ Out[1] # All[2]

AnaDone == ana.pc = "done"
Snap == ana.snapshot
AnaReturned == AnaDone /\ Snap.kind = "dict"
\* the sum of an int field over the entries of a list of the snapshot
SumOf(list, key) ==
    LET RECURSIVE Sum(_)
        Sum(i) == IF i = 0 THEN 0 ELSE Sum(i - 1) + list[i][key]
    IN Sum(Len(list))
\* the int a project dict holds under a key, when it holds one
IsIntAt(p, key) == key \in DOMAIN p /\ p[key].t = "int"

\* C11: the totals of a snapshot are the exact integer sums of the amounts of
\* its projects (total_raised, total_target, total_spent, total_investors),
\* and an amount given as an int enters the sum as it is: no rounding, no
\* drift, whatever the length of the list.
C11_TotalsAreIntegerSums ==
    AnaReturned =>
        /\ Snap.total_raised = SumOf(Snap.projects, "amount_raised")
        /\ Snap.total_target = SumOf(Snap.projects, "amount_target")
        /\ Snap.total_spent = SumOf(Snap.projects, "amount_spent")
        /\ Snap.total_investors = SumOf(Snap.projects, "investor_count")
        /\ Len(Snap.projects) = Len(ana.projects)
        /\ \A i \in 1..Len(ana.projects) :
              \A key \in {"amount_raised", "amount_target", "amount_spent",
                          "investor_count"} :
                 IsIntAt(ana.projects[i], key) =>
                    Snap.projects[i][key] = ana.projects[i][key].v

\* C11 witness: three projects, two of them with the float amount 0.5, whose
\* total raised is the 5 of the third
C11_Witness ==
    /\ AnaReturned
    /\ Len(ana.projects) = 3
    /\ Cardinality({i \in 1..3 : ana.projects[i].amount_raised.t = "float"}) = 2
    /\ \E i \in 1..3 : ana.projects[i].amount_raised = JInt(5)
    /\ Snap.total_raised = 5

\* the sum of an int-valued JSON field over the records of a list
SumOfField(list, key) ==
    LET RECURSIVE Sum(_)
        Sum(i) == IF i = 0 THEN 0 ELSE Sum(i - 1) + list[i][key].v
    IN Sum(Len(list))

\* C12 (as claimed): aggregate_projects applied to the list fetch_all_projects
\* returned gives total_target = sum of goal_sats, total_raised = sum of
\* raised_sats and total_investors = sum of backer_count over that list
\* (stated for the lists whose three fields are all ints).
C12_AnalyticsConsumesAggregation ==
    (AggDone /\ AnaDone /\ ana.projects = Out
       /\ \A k \in 1..Len(Out) :
             \A key \in {"goal_sats", "raised_sats", "backer_count"} :
                Out[k][key].t = "int") =>
        /\ Snap.kind = "dict"
        /\ Snap.total_target = SumOfField(Out, "goal_sats")
        /\ Snap.total_raised = SumOfField(Out, "raised_sats")
        /\ Snap.total_investors = SumOfField(Out, "backer_count")

\* C13 (as claimed): goal_sats and raised_sats of every record in the output
\* of fetch_all_projects are non-negative integers (satoshis), whichever
\* strategy or connector built the record.
C13_AmountsAreIntegerSats ==
    AggDone =>
        \A k \in 1..Len(Out) :
           \A key \in {"goal_sats", "raised_sats"} :
              Out[k][key].t = "int" /\ Out[k][key].v >= 0

\* =============================================== the Geyser batch claims
BatchDone == gq.pc = "done"
\* the items of the batch normalize_geyser_project raises on
Malformed == {i \in 1..Len(gq.batch) : NormalizeGeyserRaises(gq.batch[i])}
\* the normalized records of the other items, in batch order
WellFormedNormalized ==
    LET RECURSIVE From(_)
        From(i) == IF i > Len(gq.batch) THEN <<>>
                   ELSE IF i \in Malformed THEN From(i + 1)
                   ELSE <<normalize_geyser_project(gq.batch[i])>> \o From(i + 1)
    IN From(1)

\* C14 (as claimed): when one of the n records of the GraphQL response cannot
\* be normalized, fetch_via_graphql and fetch_geyser_projects still return
\* the n-1 normalized records of the other items.
C14_MalformedItemSkipped ==
    (BatchDone /\ Len(gq.batch) >= 2 /\ Cardinality(Malformed) = 1) =>
        /\ gq.loop = ListOf(WellFormedNormalized)
        /\ gq.returned = WellFormedNormalized
        /\ Len(gq.returned) = Len(gq.batch) - 1

\* the raw record has a status string that, lower-cased, is `word`
RawStatusIs(raw_project, word) ==
    /\ "status" \in DOMAIN raw_project
    /\ raw_project.status.t = "str"
    /\ Lower(raw_project.status.s) = word

\* C15 (as claimed): for every raw record of a normalized batch the result
\* status is active iff the raw status lower-cased is "active", completed iff
\* it is "inactive", failed iff it is "deleted", and unknown in every other
\* case.
C15_StatusTable ==
    (BatchDone /\ gq.loop.kind = "list") =>
        \A i \in 1..Len(gq.batch) :
           LET raw == gq.batch[i]
               status == gq.loop.items[i].status
           IN /\ status = "active" <=> RawStatusIs(raw, "active")
              /\ status = "completed" <=> RawStatusIs(raw, "inactive")
              /\ status = "failed" <=> RawStatusIs(raw, "deleted")
              /\ status = "unknown" <=>
                    ~ \E word \in {"active", "inactive", "deleted"} :
                          RawStatusIs(raw, word)

\* ======================================== the analytics claims, continued
\* the UTC calendar date of a timestamp: its wall-clock time less its offset
UtcDate(ts) ==
    ts.day + (IF ts.hour - ts.off >= 24 THEN 1
              ELSE IF ts.hour - ts.off < 0 THEN -1 ELSE 0)
\* the projects of the argument whose created_at is a timestamp
Parsable ==
    {i \in 1..Len(ana.projects) :
        /\ "created_at" \in DOMAIN ana.projects[i]
        /\ ana.projects[i].created_at.t = "iso"}
\* the amount raised by the projects of index set I, as the snapshot lists it
RaisedBy(I) ==
    LET RECURSIVE Sum(_)
        Sum(i) == IF i = 0 THEN 0
                  ELSE Sum(i - 1) + (IF i \in I THEN Snap.projects[i].amount_raised
                                     ELSE 0)
    IN Sum(Len(ana.projects))

\* C16 (as claimed): daily_totals has exactly one bucket per UTC calendar
\* date on which a project with a parsable timestamp started, each bucket
\* sums the raised amounts of the projects of that UTC date, the buckets are
\* in ascending date order, and projects without a parsable timestamp are in
\* no bucket but still in count and total_raised.
C16_DailyTotalsByUtcDate ==
    AnaReturned =>
        LET daily == Snap.daily_totals
            Dates == {UtcDate(ana.projects[i].created_at) : i \in Parsable}
        IN /\ {daily[k].date : k \in 1..Len(daily)} = Dates
           /\ Len(daily) = Cardinality(Dates)
           /\ \A k \in 1..Len(daily) :
                 daily[k].amount_raised =
                    RaisedBy({i \in Parsable :
                                 UtcDate(ana.projects[i].created_at) = daily[k].date})
           /\ \A k, l \in 1..Len(daily) : k < l => daily[k].date < daily[l].date
           /\ Snap.count = Len(ana.projects)
           /\ Snap.total_raised = RaisedBy(1..Len(ana.projects))

\* the place of project i in the order by `key` descending in which equal
\* keys keep their input order
RankBy(key, i) ==
    1 + Cardinality({j \in 1..Len(Snap.projects) :
                        Snap.projects[j][key] > Snap.projects[i][key]})
      + Cardinality({j \in 1..(i - 1) :
                        Snap.projects[j][key] = Snap.projects[i][key]})
\* `top` is the first min(5, count) projects of that order
IsTopBy(key, top) ==
    /\ Len(top) = (IF Snap.count < 5 THEN Snap.count ELSE 5)
    /\ \A k \in 1..Len(top) :
          \E i \in 1..Len(Snap.projects) :
             RankBy(key, i) = k /\ top[k] = Snap.projects[i]

\* C17: top_funded is the first min(5, count) projects of the input ordered
\* by raised amount descending, most_investors the first min(5, count)
\* ordered by backer count descending; projects with equal keys appear in
\* their input order.
C17_TopListsStable ==
    AnaReturned =>
        /\ Snap.count = Len(ana.projects)
        /\ \A i \in 1..Len(Snap.projects) : Snap.projects[i].id = ana.projects[i].id
        /\ IsTopBy("amount_raised", Snap.top_funded)
        /\ IsTopBy("investor_count", Snap.most_investors)

\* C17 witness: six projects, five of them in top_funded, two neighbours of
\* which raised the same and are different projects
C17_Witness ==
    /\ AnaReturned
    /\ Len(ana.projects) = 6
    /\ Len(Snap.top_funded) = 5
    /\ Len(Snap.most_investors) = 5
    /\ \E k \in 1..4 :
          /\ Snap.top_funded[k].amount_raised = Snap.top_funded[k + 1].amount_raised
          /\ Snap.top_funded[k].id # Snap.top_funded[k + 1].id

\* C18: aggregate_projects on the empty list returns the zero-valued
\* snapshot (count 0, every total and average 0, funding_completion_rate 0,
\* empty projects, top_funded, most_investors and daily_totals) and does not
\* raise.
C18_EmptyListZeroSnapshot ==
    (AnaDone /\ ana.projects = <<>>) =>
        /\ Snap.kind = "dict"
        /\ Snap.count = 0
        /\ Snap.total_target = 0 /\ Snap.total_raised = 0
        /\ Snap.total_spent = 0 /\ Snap.total_investors = 0
        /\ Snap.average_raised.ok /\ Snap.average_raised.num = 0
        /\ Snap.average_target.ok /\ Snap.average_target.num = 0
        /\ Snap.funding_completion_rate.ok /\ Snap.funding_completion_rate.num = 0
        /\ Snap.projects = <<>> /\ Snap.top_funded = <<>>
        /\ Snap.most_investors = <<>> /\ Snap.daily_totals = <<>>

\* C18 witness: the call with the empty list has returned
C18_Witness ==
    /\ AnaDone
    /\ ana.projects = <<>>
    /\ Snap.kind = "dict"
    /\ Snap.count = 0

\* C19: aggregate_projects never divides by zero: no call ends with
\* ZeroDivisionError, funding_completion_rate is 0 whenever total_target is
\* 0, whatever total_raised is, and the progress_percent of a project is 0
\* whenever its goal is 0.
C19_NoDivisionByZero ==
    AnaDone =>
        /\ Snap.kind = "raise" => Snap.exc # "ZeroDivisionError"
        /\ Snap.kind = "dict" =>
              /\ Snap.funding_completion_rate.ok
              /\ Snap.total_target = 0 => Snap.funding_completion_rate.num = 0
              /\ \A i \in 1..Len(Snap.projects) :
                    /\ Snap.projects[i].progress_percent.ok
                    /\ Snap.projects[i].amount_target = 0 =>
                          Snap.projects[i].progress_percent.num = 0

\* C19 witness: projects that raised something toward a total target of 0
C19_Witness ==
    /\ AnaReturned
    /\ Len(ana.projects) >= 2
    /\ Snap.total_target = 0
    /\ Snap.total_raised > 0
    /\ Snap.funding_completion_rate = Ratio(0, 1)
    /\ \E i \in 1..Len(Snap.projects) :
          /\ Snap.projects[i].amount_target = 0
          /\ Snap.projects[i].amount_raised > 0
          /\ Snap.projects[i].progress_percent = Ratio(0, 1)

\* ===================================================== the identity claim
\* C20 (as claimed): two fetches that return the same source item (the same
\* Geyser project name, the same Angor project identifier) give unified
\* records with the same id, whatever else differs between the fetches; for
\* Geyser the id is a function of the project url only.
C20_IdsStable ==
    \A i, j \in 1..Len(fetched) :
       /\ (fetched[i].platform = fetched[j].platform
             /\ fetched[i].key = fetched[j].key) =>
             fetched[i].unified.id = fetched[j].unified.id
       /\ (fetched[i].platform = "geyser" /\ fetched[j].platform = "geyser"
             /\ fetched[i].unified.url = fetched[j].unified.url) =>
             fetched[i].unified.id = fetched[j].unified.id

\* ===================================================== the webhook claims
VsDone == vs.pc = "done"
\* the signature is the hex HMAC-SHA256 of the body under the secret, its
\* hex digits in either case
SpellsHmac(signature, secret, body) ==
    /\ signature.kind = "hex"
    /\ ~secret.isNone
    /\ signature.key = secret.s
    /\ signature.body = body.id
NonEmptyArgs(signature, secret) ==
    /\ signature.kind # "empty"
    /\ ~secret.isNone
    /\ secret.s # ""

\* C21: verify_signature returns True exactly when signature and secret are
\* both non-empty and the signature equals the hex HMAC-SHA256 of the body
\* under the secret, compared case-insensitively; for an empty signature and
\* for every other signature value it returns False.
C21_VerifyExactly ==
    VsDone =>
        vs.out = Ret(/\ NonEmptyArgs(vs.signature, vs.secret)
                     /\ SpellsHmac(vs.signature, vs.secret, vs.body))

\* this step is a delivery to the webhook endpoint
DeliveryStep == hook'.n = hook.n + 1
\* the delivery d carries the HMAC of its body under the configured secret
SignatureVerifies(d) ==
    /\ NonEmptyArgs(d.signature, hook.secret)
    /\ SpellsHmac(d.signature, hook.secret, d.body)

\* C28: handle_webhook writes an invoice only for a delivery whose signature
\* verified; a delivery with no configured secret, or with a missing or wrong
\* signature, is logged with verified = False and answered with an error, and
\* leaves the invoice table as it was.
C28_UnverifiedNeverWrites ==
    [][ DeliveryStep =>
          /\ hook'.invoices # hook.invoices => SignatureVerifies(hook'.last)
          /\ ~SignatureVerifies(hook'.last) =>
                /\ hook'.invoices = hook.invoices
                /\ hook'.last.status >= 400
                /\ Len(hook'.log) = Len(hook.log) + 1
                /\ SubSeq(hook'.log, 1, Len(hook.log)) = hook.log
                /\ ~hook'.log[Len(hook'.log)].verified ]_vars

\* the positions of the Angor records that cannot be normalized
MalformedAngor == {i \in 1..Len(OrEmpty(gathered[2])) :
                      NormalizeRaises(gathered[2].items[i])}

\* C22: one Angor record that cannot be normalized does not abort the
\* aggregation: every Geyser project and every other Angor project is still
\* returned under its url; only the malformed record is missing.
C22_MalformedAngorSkipped ==
    (/\ AggDone
     /\ gathered[1].kind = "list"
     /\ gathered[2].kind = "list"
     /\ Cardinality(MalformedAngor) = 1) =>
        /\ UrlsOf(gathered[1].items) \subseteq UrlsOf(Out)
        /\ \A i \in 1..Len(gathered[2].items) :
              i \notin MalformedAngor =>
                 NormalizeAngor(gathered[2].items[i]).url \in UrlsOf(Out)

\* ===================================================== the indexer claims
IxDone == ix.pc = "done"
\* a base record can be built from the item: it is an object and its
\* identifier is a string
BaseBuilt(item) ==
    /\ item.json = "object"
    /\ item.projectIdentifier.t = "str"
BuiltItems == SelectSeq(ix.items, BaseBuilt)

\* C23: in fetch_from_angor_indexer a failed stats call or metadata call
\* keeps the project's base record, with amount_raised 0 and investor_count
\* 0 after a failed stats call, and affects no other project: the result has
\* one record per item of the accepted list response whose base record could
\* be built, in the order of the list.
C23_EnrichmentFailureKeepsBase ==
    (IxDone /\ ix.items # <<>>) =>
        /\ ix.result.kind = "list"
        /\ Len(ix.result.items) = Len(BuiltItems)
        /\ \A k \in 1..Len(BuiltItems) :
              k <= Len(ix.result.items) =>
                 /\ ix.result.items[k].project_identifier
                       = BuiltItems[k].projectIdentifier.s
                 /\ ix.trace[k].stats.kind # "data" =>
                       /\ ix.result.items[k].amount_raised = JInt(0)
                       /\ ix.result.items[k].investor_count = JInt(0)

\* the awaits made for one project: the stats request and the two awaits of
\* the relay metadata lookup (connection setup, event query)
PerItemAwaits == {"stats", "relay_setup", "relay_events"}

\* C24: every per-item enrichment call (the stats request, the relay metadata
\* lookup including its connection setup) has a timeout of its own, shorter
\* than that of the list request, and is never pending for longer than it:
\* the call for one project ends and the next project begins.
C24_EnrichmentBounded ==
    ix.pc \in PerItemAwaits =>
        /\ TimeoutOf(ix.pc) # NoTimeout
        /\ TimeoutOf(ix.pc) < LIST_TIMEOUT
        /\ ix.waited * DETAIL_TIMEOUT <= TimeoutOf(ix.pc)
        /\ ix.waited * DETAIL_TIMEOUT < LIST_TIMEOUT

\* ============================================= the cache claims, continued
\* the network fetch of the call rec raised or gave nothing: no strategy
\* other than the static dataset returned a non-empty list
NetworkFetchFailed(rec) ==
    \A j \in 1..Len(rec.rets) :
       rec.invoked[j] # "demo" => ~NonEmptyList(rec.rets[j])
\* the cache holds an entry with a payload
HasPayload == ~TheCache.isNone /\ Len(TheCache.items) > 0

\* C25: a refetch that raises or yields an empty result never destroys an
\* existing cache entry: the payload and the timestamp are the same after
\* the call as before it.
C25_FailedRefetchKeepsEntry ==
    [][ (ReturnStep /\ NetworkFetchFailed(last') /\ HasPayload) =>
            (TheCache' = TheCache /\ TheTs' = TheTs) ]_vars

\* the get_angor_projects call returning in this step took its result from
\* the indexer or from the relays
TookNetworkList(rec) ==
    /\ rec.invoked # <<>>
    /\ rec.invoked[Len(rec.invoked)] \in {"indexer", "nostr"}
    /\ NonEmptyList(rec.rets[Len(rec.rets)])

\* C29: a get_angor_projects call that ends with the static demo dataset or
\* with the empty list leaves _angor_cache and _cache_timestamp exactly as
\* they were; the cache is written only by a call whose indexer or relay
\* strategy returned a non-empty list.
C29_DemoLeavesCache ==
    [][ connector = "angor" =>
          /\ (ReturnStep /\ ~TookNetworkList(last')) =>
                (angor_cache' = angor_cache /\ angor_ts' = angor_ts)
          /\ (angor_cache' # angor_cache \/ angor_ts' # angor_ts) =>
                (ReturnStep /\ TookNetworkList(last')) ]_vars

\* C29 witness: with an entry stored at time 0 and expired, a later call fell
\* through to the static dataset and returned it; the entry is still there
C29_Witness ==
    /\ connector = "angor"
    /\ last.n = 1
    /\ last.invoked # <<>>
    /\ last.invoked[Len(last.invoked)] = "demo"
    /\ last.result = ListOf(<<"d1", "d2">>)
    /\ last.tdone >= 300
    /\ angor_ts = 0
    /\ angor_cache = Some(<<"i1">>)

\* ========================================= the aggregator claims, continued
\* the unified record of the Angor record at position i of the connector's list
UnifiedAngor(i) == NormalizeAngor(gathered[2].items[i])
\* the output holds the unified record of that Angor record, unless a Geyser
\* record has its url
Survives(i) ==
    \/ UnifiedAngor(i).url \in UrlsOf(OrEmpty(gathered[1]))
    \/ \E k \in 1..Len(Out) : Out[k] = UnifiedAngor(i)

\* C26: deduplication never discards a distinct project: two records of the
\* Angor connector (built by the indexer, the relay or the static strategy)
\* with different source identifiers have different urls, and both are in the
\* output.
C26_DistinctProjectsSurvive ==
    (AggDone /\ agg.reached /\ gathered[2].kind = "list") =>
        \A i, j \in 1..Len(gathered[2].items) :
           gathered[2].items[i].id # gathered[2].items[j].id =>
              /\ UnifiedAngor(i).url # UnifiedAngor(j).url
              /\ Survives(i)
              /\ Survives(j)

\* ========================================== the analytics claims, continued
\* the keys of a snapshot dict
KeysOf(snapshot) == DOMAIN snapshot \ {"kind"}

\* C30: the snapshot of aggregate_projects has the same set of keys for
\* every input: the keys of the snapshot of a non-empty list are exactly the
\* keys of the zero-valued snapshot of the empty list.
C30_SameKeysForEveryInput ==
    AnaReturned => KeysOf(Snap) = KeysOf(aggregate_projects(<<>>))

\* ============================================= the cache claims, concurrency
\* the fetch of the call rec ended with a list its connector stores: Geyser
\* stores any list, Angor a non-empty list of the indexer or the relays
FetchedToStore(rec) ==
    /\ rec.invoked # <<>>
    /\ IF connector = "geyser"
       THEN rec.rets[1].kind = "list"
       ELSE TookNetworkList(rec)

\* C27 (as claimed): under concurrent calls that both miss, the cache never
\* regresses: a call that was started earlier than the fetch whose payload
\* the cache has held since does not overwrite the cache when it returns,
\* and the stored timestamp is never later than the completion of the fetch
\* whose payload is stored.
C27_NeverRegresses ==
    [][ ReturnStep =>
          /\ last'.overtaken => (TheCache' = TheCache /\ TheTs' = TheTs)
          /\ TheTs' # TheTs => TheTs' <= last'.tdone ]_vars

\* C27 (amended): the last writer wins.  Every call whose fetch ended with a
\* list to store replaces the entry when it returns, also when a call started
\* after it has stored in the meantime; the payload is the list it fetched
\* and the timestamp is the moment it completed, never later.
C27_LastWriterWins ==
    [][ (ReturnStep /\ FetchedToStore(last')) =>
          /\ TheCache' = Some(last'.rets[Len(last'.rets)].items)
          /\ TheTs' = last'.tdone
          /\ TheTs' <= now' ]_vars

\* C27 witness: two calls missed; the one started second stored its payload
\* first, and the one started first has then replaced it with its own
C27_Witness ==
    /\ last.n = 1
    /\ last.overtaken
    /\ FetchedToStore(last)
    /\ NoneInFlight
    /\ TheCache = Some(last.rets[Len(last.rets)].items)
    /\ Len(TheCache.items) = 1
    /\ TheTs = last.tdone

====
